---- MODULE Spec2Model ----
(***************************************************************************)
(* Model of src/src/main.rs: a binary SHA-256 hash tree (MerkleTree) built *)
(* bottom-up from a list of records, inclusion proofs (MerkleProof) and    *)
(* their verification.                                                     *)
(*                                                                         *)
(* Byte strings are sequences of symbols.  A symbol is either an opaque    *)
(* record byte or a 32-byte SHA-256 digest, which is kept as the term      *)
(* "hash of these bytes": two digests are equal exactly when their inputs  *)
(* are equal (the hash is collision free), and feeding two digests to one  *)
(* hasher hashes their concatenation.                                      *)
(***************************************************************************)
EXTENDS Integers, Sequences, FiniteSets

\* ---------------------------------------------------------------- bounds
MaxLen == 10         \* longest record list handed to MerkleTree::new
NumRecords == 2      \* number of distinct plain records
MaxRebuildLen == 1   \* longest record list of a later MerkleTree::new call
MaxForgeLen == 3     \* longest record list whose tree is attacked by forgery
MaxForge == 2        \* longest hand-made proof

\* ------------------------------------------------------- Option<T>, bytes
None == <<>>
Some(x) == <<x>>

Byte(k) == [k |-> "byte", v |-> k]

\* Sha256::new(); update(bytes); finalize().to_vec()
Sha256(bytes) == << [k |-> "hash", v |-> bytes] >>

\* ------------------------------------------------------------------ Node
new_leaf(data) ==
    [hash |-> Sha256(data), left |-> None, right |-> None]

new_internal(left, right) ==
    [hash  |-> Sha256(left.hash \o right.hash),
     left  |-> Some(left),
     right |-> Some(right)]

\* ------------------------------------------------------- MerkleTree::new
\* variant: an odd leaf level is left as it is
PadLeaves_None(nodes) == nodes

\* variant: an odd leaf level is completed with a copy of its first node
PadLeaves_First(nodes) ==
    IF Len(nodes) % 2 = 1 THEN Append(nodes, nodes[1]) ELSE nodes

\* nodes.len() % 2 == 1  =>  nodes.push(nodes.last().unwrap().clone())
PadLeaves(nodes) ==
    IF Len(nodes) % 2 = 1 THEN Append(nodes, nodes[Len(nodes)]) ELSE nodes

\* for i in (0..nodes.len()).step_by(2): pair nodes[i] with nodes[i + 1];
\* indexing nodes[i + 1] past the end aborts the program (indices are
\* 1-based here).
RECURSIVE PairLevel(_, _, _)
PairLevel(nodes, i, next_level) ==
    IF i > Len(nodes) THEN [panicked |-> FALSE, nodes |-> next_level]
    ELSE IF i + 1 > Len(nodes) THEN [panicked |-> TRUE, nodes |-> next_level]
    ELSE PairLevel(nodes, i + 2,
                   Append(next_level, new_internal(nodes[i], nodes[i + 1])))

\* while nodes.len() > 1 { ... nodes = next_level }; root = nodes.remove(0)
RECURSIVE BuildLevels(_)
BuildLevels(nodes) ==
    IF Len(nodes) > 1
    THEN LET lvl == PairLevel(nodes, 1, <<>>)
         IN  IF lvl.panicked THEN [panicked |-> TRUE, root |-> None]
             ELSE BuildLevels(lvl.nodes)
    ELSE [panicked |-> FALSE, root |-> Some(nodes[1])]

MerkleTree_new(d) ==
    IF d = <<>> THEN [panicked |-> FALSE, root |-> None]
    ELSE BuildLevels(PadLeaves([j \in 1..Len(d) |-> new_leaf(d[j])]))

\* -------------------------------------------------- MerkleTree::root_hash
root_hash(root) == IF root = None THEN None ELSE Some(root[1].hash)

\* --------------------------------------------------- MerkleProof::verify
\* variant: the side flag is ignored, the sibling is always hashed second
RECURSIVE Fold_NoSide(_, _, _)
Fold_NoSide(current_hash, proof_hashes, j) ==
    IF j > Len(proof_hashes) THEN current_hash
    ELSE Fold_NoSide(Sha256(current_hash \o proof_hashes[j][1]),
                     proof_hashes, j + 1)

\* variant: the left-sibling branch feeds the sibling to the hasher twice
RECURSIVE Fold_Twice(_, _, _)
Fold_Twice(current_hash, proof_hashes, j) ==
    IF j > Len(proof_hashes) THEN current_hash
    ELSE LET sibling_hash == proof_hashes[j][1]
             is_left      == proof_hashes[j][2]
         IN  Fold_Twice(IF is_left THEN Sha256(sibling_hash \o sibling_hash)
                                   ELSE Sha256(current_hash \o sibling_hash),
                        proof_hashes, j + 1)

RECURSIVE Fold(_, _, _)
Fold(current_hash, proof_hashes, j) ==
    IF j > Len(proof_hashes) THEN current_hash
    ELSE LET sibling_hash == proof_hashes[j][1]
             is_left      == proof_hashes[j][2]
         IN  Fold(IF is_left THEN Sha256(sibling_hash \o current_hash)
                             ELSE Sha256(current_hash \o sibling_hash),
                  proof_hashes, j + 1)

verify(p, expected) == Fold(p.leaf_hash, p.proof_hashes, 1) = expected

\* ------------------------------------------------ MerkleTree::verify_proof
\* variant: the proof is checked against the root digest it carries itself
verify_proof_Stored(root, p) == verify(p, p.root_hash)

verify_proof(root, p) ==
    IF root # None THEN verify(p, root[1].hash) ELSE FALSE

\* ---------------------------------------------- MerkleTree::generate_proof
\* variant: the digest of every node, not only of a leaf, is compared
RECURSIVE build_proof_AnyNode(_, _, _, _)
build_proof_AnyNode(node, target_hash, proof, found) ==
    IF node.hash = target_hash \/ (node.left = None /\ node.right = None)
    THEN [ret |-> node.hash = target_hash, proof |-> proof,
          found |-> found \/ node.hash = target_hash]
    ELSE LET l == build_proof_AnyNode(node.left[1], target_hash, proof, found)
         IN  IF l.ret
             THEN [ret |-> TRUE, found |-> TRUE,
                   proof |-> Append(l.proof, <<node.right[1].hash, FALSE>>)]
             ELSE LET r == build_proof_AnyNode(node.right[1], target_hash,
                                               l.proof, l.found)
                  IN  IF r.ret
                      THEN [ret |-> TRUE, found |-> TRUE,
                            proof |-> Append(r.proof,
                                             <<node.left[1].hash, TRUE>>)]
                      ELSE [ret |-> FALSE, proof |-> r.proof,
                            found |-> r.found]

\* variant: the right subtree is searched before the left one
RECURSIVE build_proof_RightFirst(_, _, _, _)
build_proof_RightFirst(node, target_hash, proof, found) ==
    IF node.left = None /\ node.right = None
    THEN [ret |-> node.hash = target_hash, proof |-> proof, found |-> found]
    ELSE LET r == build_proof_RightFirst(node.right[1], target_hash,
                                         proof, found)
         IN  IF r.ret
             THEN [ret |-> TRUE, found |-> TRUE,
                   proof |-> Append(r.proof, <<node.left[1].hash, TRUE>>)]
             ELSE LET l == build_proof_RightFirst(node.left[1], target_hash,
                                                  r.proof, r.found)
                  IN  IF l.ret
                      THEN [ret |-> TRUE, found |-> TRUE,
                            proof |-> Append(l.proof,
                                             <<node.right[1].hash, FALSE>>)]
                      ELSE [ret |-> FALSE, proof |-> l.proof,
                            found |-> l.found]

RECURSIVE build_proof(_, _, _, _)
build_proof(node, target_hash, proof, found) ==
    IF node.left = None /\ node.right = None
    THEN [ret |-> node.hash = target_hash, proof |-> proof, found |-> found]
    ELSE LET l == IF node.left # None
                  THEN build_proof(node.left[1], target_hash, proof, found)
                  ELSE [ret |-> FALSE, proof |-> proof, found |-> found]
         IN  IF l.ret
             THEN [ret   |-> TRUE,
                   proof |-> IF node.right # None
                             THEN Append(l.proof, <<node.right[1].hash, FALSE>>)
                             ELSE l.proof,
                   found |-> TRUE]
             ELSE LET r == IF node.right # None
                           THEN build_proof(node.right[1], target_hash,
                                            l.proof, l.found)
                           ELSE [ret |-> FALSE, proof |-> l.proof,
                                 found |-> l.found]
                  IN  IF r.ret
                      THEN [ret   |-> TRUE,
                            proof |-> IF node.left # None
                                      THEN Append(r.proof,
                                                  <<node.left[1].hash, TRUE>>)
                                      ELSE r.proof,
                            found |-> TRUE]
                      ELSE [ret |-> FALSE, proof |-> r.proof,
                            found |-> r.found]

generate_proof(root, d) ==
    LET leaf_hash == Sha256(d)
    IN  IF root # None
        THEN LET b == build_proof(root[1], leaf_hash, <<>>, FALSE)
             IN  IF b.found
                 THEN Some([proof_hashes |-> b.proof,
                            leaf_hash    |-> leaf_hash,
                            root_hash    |-> root[1].hash])
                 ELSE None
        ELSE None

\* ------------------------------------------------------ the input domains
Rec(k) == << Byte(k) >>
Records == {Rec(k) : k \in 1..NumRecords}
Inputs(n) == UNION {[1..m -> Records] : m \in 0..n}

\* every node of the tree under `node`
RECURSIVE NodesOf(_)
NodesOf(node) ==
    {node} \cup (IF node.left = None THEN {} ELSE NodesOf(node.left[1]))
           \cup (IF node.right = None THEN {} ELSE NodesOf(node.right[1]))

TreeNodes(root) == IF root = None THEN {} ELSE NodesOf(root[1])
IsLeaf(n) == n.left = None /\ n.right = None
NodeDigests(root) == {n.hash : n \in TreeNodes(root)}
\* the 64-byte strings hashed by the internal nodes
InternalInputs(root) ==
    {n.left[1].hash \o n.right[1].hash : n \in {m \in TreeNodes(root) : ~IsLeaf(m)}}

\* a record that is in no input list
Foreign == Rec(NumRecords + 1)
\* the records a proof is asked for: the plain records, the 64-byte strings
\* that spell out the two child digests of an internal node, and Foreign
Targets(root) == Records \cup InternalInputs(root) \cup {Foreign}
\* the digests a modified or hand-made proof may contain
DigestUniverse(root) ==
    NodeDigests(root) \cup {Sha256(r) : r \in Records \cup {Foreign}}
\* the digests that replace a component of a generated proof: one that is
\* nowhere in the tree, the root digest and the proof's own leaf digest
TamperDigests(p) == {Sha256(Foreign), p.root_hash, p.leaf_hash}

\* ------------------------------------------------------------------ state
VARIABLES pc, data, tree, builds, target, proof, origin, result

vars == <<pc, data, tree, builds, target, proof, origin, result>>

NoChange == [kind |-> "none", at |-> 0]

Init ==
    /\ pc = "start"
    /\ data = <<>>
    /\ tree = None
    /\ builds = 0
    /\ target = None
    /\ proof = None
    /\ origin = NoChange
    /\ result = None

\* let tree = MerkleTree::new(d); a panic ends the program
Build(d) ==
    /\ LET t == MerkleTree_new(d)
       IN  /\ pc' = IF t.panicked THEN "panicked" ELSE "built"
           /\ tree' = IF t.panicked THEN tree ELSE t.root
    /\ data' = d
    /\ builds' = builds + 1
    /\ result' = None
    /\ UNCHANGED <<target, proof, origin>>

\* the tree is built from any record list
New ==
    /\ pc = "start"
    /\ \E d \in Inputs(MaxLen) : Build(d)

\* a second tree replaces the first one while a verified proof of the first
\* one is kept
NewAgain ==
    /\ pc = "verified"
    /\ builds = 1
    /\ \E d \in Inputs(MaxRebuildLen) : Build(d)

\* let proof = tree.generate_proof(r)
GenerateProof ==
    /\ pc = "built"
    /\ builds = 1
    /\ \E r \in Targets(tree) :
       /\ target' = Some(r)
       /\ proof' = generate_proof(tree, r)
    /\ origin' = [kind |-> "generated", at |-> 0]
    /\ pc' = "proved"
    /\ UNCHANGED <<data, tree, builds, result>>

\* tree.verify_proof(&proof)
VerifyProof ==
    /\ pc \in {"proved", "built"}
    /\ proof # None
    /\ result' = Some(verify_proof(tree, proof[1]))
    /\ pc' = "verified"
    /\ UNCHANGED <<data, tree, builds, target, proof, origin>>

\* one component of a generated proof is replaced before it is verified:
\* the leaf digest, one sibling digest or one side flag
Tamper ==
    /\ pc = "proved"
    /\ proof # None
    /\ LET p == proof[1]
           n == Len(p.proof_hashes)
       IN  \/ \E d \in TamperDigests(p) \ {p.leaf_hash} :
                /\ proof' = Some([p EXCEPT !.leaf_hash = d])
                /\ origin' = [kind |-> "leaf", at |-> 0]
           \/ \E j \in 1..n : \E d \in TamperDigests(p) \ {p.proof_hashes[j][1]} :
                /\ proof' = Some([p EXCEPT !.proof_hashes[j][1] = d])
                /\ origin' = [kind |-> "sibling", at |-> j]
           \/ \E j \in 1..n :
                /\ proof' = Some([p EXCEPT !.proof_hashes[j][2] = ~p.proof_hashes[j][2]])
                /\ origin' = [kind |-> "flag", at |-> j]
    /\ pc' = "tampered"
    /\ UNCHANGED <<data, tree, builds, target, result>>

\* a proof written by hand for record r, with no sibling yet
Forge ==
    /\ pc = "built"
    /\ builds = 1
    /\ tree # None
    /\ Len(data) <= MaxForgeLen
    /\ \E r \in Targets(tree) :
       /\ target' = Some(r)
       /\ proof' = Some([proof_hashes |-> <<>>,
                        leaf_hash    |-> Sha256(r),
                        root_hash    |-> tree[1].hash])
    /\ origin' = [kind |-> "forged", at |-> 0]
    /\ pc' = "forged"
    /\ UNCHANGED <<data, tree, builds, result>>

\* the hand-made proof gets one more (sibling digest, side flag) pair
ForgeStep ==
    /\ pc = "forged"
    /\ Len(proof[1].proof_hashes) < MaxForge
    /\ \E d \in DigestUniverse(tree), f \in BOOLEAN :
         proof' = Some([proof[1] EXCEPT
                          !.proof_hashes = Append(@, <<d, f>>)])
    /\ UNCHANGED <<pc, data, tree, builds, target, origin, result>>

\* proof.verify(&root_hash) with the root digest of the tree
ProofVerify ==
    /\ pc \in {"tampered", "forged"}
    /\ tree # None
    /\ result' = Some(verify(proof[1], root_hash(tree)[1]))
    /\ pc' = "checked"
    /\ UNCHANGED <<data, tree, builds, target, proof, origin>>

Next ==
    \/ New
    \/ NewAgain
    \/ GenerateProof
    \/ VerifyProof
    \/ Tamper
    \/ ProofVerify

Spec == Init /\ [][Next]_vars

NextForge ==
    \/ New
    \/ Forge
    \/ ForgeStep
    \/ ProofVerify

SpecForge == Init /\ [][NextForge]_vars

\* ============================================================ properties
Last(q) == q[Len(q)]
InData(r) == \E j \in 1..Len(data) : data[j] = r
Returned == pc \notin {"start", "panicked"}
\* the proof in hand is the one generate_proof returned for the current tree
Fresh == pc = "proved" /\ origin.kind = "generated"

\* C2: MerkleTree::new returns a tree for every record list; pairing
\* nodes[i] with nodes[i + 1] never indexes past the end of the level.
C2_NewNeverFaults == pc # "panicked"

\* the construction of section 4.2: an odd level is padded with a copy of
\* its last digest at EVERY level, then paired (0,1), (2,3), ...
RECURSIVE RefLevels(_)
RefLevels(digests) ==
    LET padded == IF Len(digests) % 2 = 1
                  THEN Append(digests, Last(digests)) ELSE digests
        next   == [j \in 1..(Len(padded) \div 2) |->
                     Sha256(padded[2 * j - 1] \o padded[2 * j])]
    IN  IF Len(next) = 1 THEN next[1] ELSE RefLevels(next)

RefRoot(d) == RefLevels([j \in 1..Len(d) |-> Sha256(d[j])])

\* C3: for every non-empty record list the root digest of the built tree is
\* the digest of the reference construction that pads every odd level.
C3_RootIsPaddedReference ==
    (builds = 1 /\ data # <<>>) =>
        /\ pc # "panicked"
        /\ root_hash(tree) = Some(RefRoot(data))

\* C1: for every non-empty record list and every record in it,
\* generate_proof returns a proof and verify_proof accepts it.
C1_Inclusion ==
    (builds = 1 /\ data # <<>>) =>
        /\ pc # "panicked"
        /\ (Fresh /\ InData(target[1])) => proof # None
        /\ (pc = "verified" /\ InData(target[1])) => result = Some(TRUE)

\* ------------------------------------------------------------- tampering
Tampered == pc = "checked" /\ origin.kind \in {"leaf", "sibling", "flag"}
\* the digest folded so far when step j of proof p is reached
FoldedBefore(p, j) == Fold(p.leaf_hash, SubSeq(p.proof_hashes, 1, j - 1), 1)
\* step j of p pairs the folded digest with an equal sibling digest
TwinStep(p, j) == p.proof_hashes[j][1] = FoldedBefore(p, j)

\* C4 as stated: after one component of a generated proof is changed (leaf
\* digest, one sibling digest or one side flag), verify against the root
\* digest returns false.
C4_AnyChangeRejected == Tampered => result = Some(FALSE)

\* C4 amended: the changed proof is rejected exactly when the change is not
\* the flip of the side flag of a step whose sibling digest equals the digest
\* folded so far (the padding twin or a repeated record); flipping such a
\* flag hashes the same two digests in the same order and is accepted.
C4_ChangeRejectedUnlessTwinFlag ==
    Tampered =>
        (result = Some(FALSE)) <=>
            ~(origin.kind = "flag" /\ TwinStep(proof[1], origin.at))

C4_Witness ==
    /\ Tampered
    /\ origin.kind = "flag"
    /\ ~TwinStep(proof[1], origin.at)
    /\ Len(proof[1].proof_hashes) = 3
    /\ result = Some(FALSE)

\* --------------------------------------------------------------- forgery
Forged == pc = "checked" /\ origin.kind = "forged"

\* the proof for the first node (leaf or internal, left to right) whose
\* digest is `digest`: the siblings on the way from that node to the root
RECURSIVE PathTo(_, _)
PathTo(node, digest) ==
    IF node.hash = digest THEN Some(<<>>)
    ELSE IF IsLeaf(node) THEN None
    ELSE LET l == PathTo(node.left[1], digest)
         IN  IF l # None
             THEN Some(Append(l[1], <<node.right[1].hash, FALSE>>))
             ELSE LET r == PathTo(node.right[1], digest)
                  IN  IF r # None
                      THEN Some(Append(r[1], <<node.left[1].hash, TRUE>>))
                      ELSE None

\* some proof with leaf digest Sha256(r) folds to the root digest of the tree
HasVerifyingProof(r) ==
    LET path == PathTo(tree[1], Sha256(r))
    IN  /\ path # None
        /\ verify([proof_hashes |-> path[1], leaf_hash |-> Sha256(r),
                   root_hash |-> tree[1].hash], tree[1].hash)

RECURSIVE LeafDepths(_)
LeafDepths(node) ==
    IF IsLeaf(node) THEN {0}
    ELSE {h + 1 : h \in LeafDepths(node.left[1]) \cup LeafDepths(node.right[1])}

\* the paths (0 = left, 1 = right, from the root) to the leaves, left to right
RECURSIVE LeafPaths(_)
LeafPaths(node) ==
    IF IsLeaf(node) THEN << <<>> >>
    ELSE LET l == LeafPaths(node.left[1])
             r == LeafPaths(node.right[1])
         IN  [j \in 1..Len(l) |-> <<0>> \o l[j]] \o
             [j \in 1..Len(r) |-> <<1>> \o r[j]]

RECURSIVE NodeAt(_, _)
NodeAt(node, path) ==
    IF path = <<>> THEN node
    ELSE NodeAt(IF path[1] = 0 THEN node.left[1] ELSE node.right[1], Tail(path))

\* the positions, left to right, of the leaves whose digest is `digest`
Matches(root, digest) ==
    LET paths == LeafPaths(root[1])
    IN  {j \in 1..Len(paths) : NodeAt(root[1], paths[j]).hash = digest}

\* the pairs of the leaf at `path`, leaf to root: pair k holds the digest of
\* the sibling of the path node at height k - 1, flagged TRUE when that path
\* node is a right child
PairsOf(root, path) ==
    LET n == Len(path)
    IN  [k \in 1..n |->
           LET parent == NodeAt(root[1], SubSeq(path, 1, n - k))
               side   == path[n - k + 1]
           IN  IF side = 1 THEN <<parent.left[1].hash, TRUE>>
                           ELSE <<parent.right[1].hash, FALSE>>]

\* C6: generate_proof returns no proof for a record that is not in the
\* record list (the empty list included), also when the digest of that
\* record is the digest of an internal node: only leaves are compared.
C6_Exclusion ==
    (target # None /\ builds = 1 /\ origin.kind = "generated"
       /\ ~InData(target[1])) => proof = None

C6_Witness ==
    /\ Fresh
    /\ ~InData(target[1])
    /\ target[1] \in InternalInputs(tree)
    /\ Len(data) = 7
    /\ proof = None

\* C7: every leaf of a built tree is at one and the same depth, which is at
\* least 1, and a returned proof has exactly that many pairs.
C7_ProofLengthIsDepth ==
    /\ (Returned /\ builds = 1 /\ tree # None) =>
          \E h \in 1..MaxLen : LeafDepths(tree[1]) = {h}
    /\ (Fresh /\ proof # None) =>
          LeafDepths(tree[1]) = {Len(proof[1].proof_hashes)}

C7_Witness ==
    /\ Fresh
    /\ Len(data) = 1
    /\ proof # None
    /\ Len(proof[1].proof_hashes) = 1

\* C8: the root of the tree of [A] is hash(hash(A) || hash(A)) and is the
\* root of the tree of [A, A]; building from an odd-length list and from
\* that list with its last record repeated has the same outcome.
C8_LastRecordRepeated ==
    (pc \in {"built", "panicked"} /\ builds = 1 /\ Len(data) % 2 = 1) =>
        LET again == MerkleTree_new(Append(data, Last(data)))
        IN  /\ again.panicked <=> pc = "panicked"
            /\ pc = "built" => root_hash(tree) = root_hash(again.root)
            /\ (pc = "built" /\ Len(data) = 1) =>
                  root_hash(tree) =
                      Some(Sha256(Sha256(data[1]) \o Sha256(data[1])))

C8_Witness ==
    /\ pc = "built"
    /\ builds = 1
    /\ Len(data) = 3
    /\ data[3] # data[1]
    /\ root_hash(tree) # None

\* C9: root_hash is None exactly for the tree of the empty list; on that
\* tree generate_proof returns None, verify_proof returns false for every
\* proof, and building it does not fault.
C9_EmptyTree ==
    /\ Returned => (root_hash(tree) = None <=> data = <<>>)
    /\ data = <<>> => pc # "panicked"
    /\ (Fresh /\ data = <<>>) => proof = None
    /\ (pc = "verified" /\ data = <<>>) => result = Some(FALSE)

C9_Witness ==
    /\ pc = "verified"
    /\ builds = 2
    /\ data = <<>>
    /\ proof # None
    /\ result = Some(FALSE)

\* C10: a returned proof is the proof of the leftmost leaf whose digest is
\* the digest of the target: its pairs, leaf to root, are the siblings of
\* the nodes on that leaf's path with the side of each sibling, and it
\* carries the target's digest and the root digest.
C10_FirstMatch ==
    (Fresh /\ proof # None) =>
        LET m == Matches(tree, Sha256(target[1]))
            first == CHOOSE j \in m : \A i \in m : j <= i
        IN  /\ m # {}
            /\ proof[1].proof_hashes =
                  PairsOf(tree, LeafPaths(tree[1])[first])
            /\ proof[1].leaf_hash = Sha256(target[1])
            /\ proof[1].root_hash = tree[1].hash

C10_Witness ==
    /\ Fresh
    /\ proof # None
    /\ Len(data) = 7
    /\ Matches(tree, Sha256(target[1])) = {2, 4, 7, 8}

====
